---- MODULE Spec2Model ----
(***************************************************************************)
(* Latitude-boundary construction and merge of pmaciel/gb-sort.            *)
(*                                                                         *)
(* The program reads two grid names and two area strings, builds the two   *)
(* grids (Grid::build), writes the latitude edges of both grids into one   *)
(* buffer (fill_midpoints / fill_midpoints_n) and merges the two runs with *)
(* std::inplace_merge.                                                     *)
(*                                                                         *)
(* A C++ double is modelled as an IEEE-754 binary64 value: a sign, an odd  *)
(* integer significand of at most 53 bits and a binary exponent; every     *)
(* arithmetic operation rounds to nearest, ties to even.  The exponent     *)
(* range is not bounded (no value of the program comes near the overflow   *)
(* or subnormal range) and -0.0 is identified with +0.0 (they compare      *)
(* equal in C++).  Significands are wider than TLC's integers, so natural  *)
(* numbers are kept as little-endian sequences of limbs.                   *)
(***************************************************************************)
EXTENDS Integers, Sequences, FiniteSets, TLC

\* ------------------------------------------------------------------------
\* Natural numbers of arbitrary size: little-endian limbs, no high zero limb
\* ------------------------------------------------------------------------

LimbBits == 12

Base == 4096

Pow2(n) == 2 ^ n

RECURSIVE BTrim(_)
BTrim(a) ==
    IF a = <<>> THEN <<>>
    ELSE IF a[Len(a)] = 0 THEN BTrim(SubSeq(a, 1, Len(a) - 1))
    ELSE a

RECURSIVE BFromNat(_)
BFromNat(n) == IF n = 0 THEN <<>> ELSE <<n % Base>> \o BFromNat(n \div Base)

BHead(a) == IF a = <<>> THEN 0 ELSE Head(a)

BTail(a) == IF a = <<>> THEN <<>> ELSE Tail(a)

RECURSIVE BAddC(_, _, _)
BAddC(a, b, c) ==
    IF a = <<>> /\ b = <<>> THEN (IF c = 0 THEN <<>> ELSE <<c>>)
    ELSE LET x == BHead(a) + BHead(b) + c
         IN  <<x % Base>> \o BAddC(BTail(a), BTail(b), x \div Base)

BAdd(a, b) == BAddC(a, b, 0)

\* a - b - c for a >= b + c, before trimming
RECURSIVE BSubC(_, _, _)
BSubC(a, b, c) ==
    IF a = <<>> THEN <<>>
    ELSE LET x == Head(a) - BHead(b) - c
         IN  IF x < 0 THEN <<x + Base>> \o BSubC(Tail(a), BTail(b), 1)
             ELSE <<x>> \o BSubC(Tail(a), BTail(b), 0)

BSub(a, b) == BTrim(BSubC(a, b, 0))

\* -1, 0, 1 as a < b, a = b, a > b
RECURSIVE BCmpAt(_, _, _)
BCmpAt(a, b, i) ==
    IF i = 0 THEN 0
    ELSE IF a[i] < b[i] THEN -1
    ELSE IF a[i] > b[i] THEN 1
    ELSE BCmpAt(a, b, i - 1)

BCmp(a, b) ==
    IF Len(a) < Len(b) THEN -1
    ELSE IF Len(a) > Len(b) THEN 1
    ELSE BCmpAt(a, b, Len(a))

\* a * k + c for 0 <= k < Base
RECURSIVE BMulSmallC(_, _, _)
BMulSmallC(a, k, c) ==
    IF a = <<>> THEN (IF c = 0 THEN <<>> ELSE <<c>>)
    ELSE LET x == Head(a) * k + c
         IN  <<x % Base>> \o BMulSmallC(Tail(a), k, x \div Base)

BMulSmall(a, k) == BTrim(BMulSmallC(a, k, 0))

RECURSIVE BMul(_, _)
BMul(a, b) ==
    IF a = <<>> \/ b = <<>> THEN <<>>
    ELSE LET rest == BMul(a, Tail(b))
         IN  BAdd(BMulSmall(a, Head(b)), IF rest = <<>> THEN <<>> ELSE <<0>> \o rest)

Zeros(n) == [i \in 1..n |-> 0]

\* a * 2^n
BShl(a, n) ==
    IF a = <<>> THEN <<>>
    ELSE Zeros(n \div LimbBits) \o BMulSmall(a, Pow2(n % LimbBits))

\* floor(a / k) for 0 < k < Base, high limb first, r the running remainder
RECURSIVE BDivSmallAt(_, _, _, _)
BDivSmallAt(a, k, i, r) ==
    IF i = 0 THEN <<>>
    ELSE LET x == r * Base + a[i]
         IN  BDivSmallAt(a, k, i - 1, x % k) \o <<x \div k>>

BDivSmall(a, k) == BTrim(BDivSmallAt(a, k, Len(a), 0))

\* floor(a / 2^n)
BShr(a, n) ==
    IF Len(a) <= n \div LimbBits THEN <<>>
    ELSE BDivSmall(SubSeq(a, (n \div LimbBits) + 1, Len(a)), Pow2(n % LimbBits))

RECURSIVE SmallBitLen(_)
SmallBitLen(n) == IF n = 0 THEN 0 ELSE 1 + SmallBitLen(n \div 2)

BBitLen(a) == IF a = <<>> THEN 0 ELSE LimbBits * (Len(a) - 1) + SmallBitLen(a[Len(a)])

BIsOdd(a) == a # <<>> /\ Head(a) % 2 = 1

\* bit i (bit 0 the lowest) of a
BBit(a, i) ==
    IF Len(a) <= i \div LimbBits THEN 0
    ELSE (a[(i \div LimbBits) + 1] \div Pow2(i % LimbBits)) % 2

RECURSIVE SmallTrailingZeros(_)
SmallTrailingZeros(n) == IF n % 2 = 1 THEN 0 ELSE 1 + SmallTrailingZeros(n \div 2)

\* number of trailing zero bits of a # 0
RECURSIVE BTrailingZeros(_)
BTrailingZeros(a) ==
    IF Head(a) = 0 THEN LimbBits + BTrailingZeros(Tail(a))
    ELSE SmallTrailingZeros(Head(a))

\* ------------------------------------------------------------------------
\* double: sg * m * 2^e with m odd (zero: sg = 0, m = <<>>, e = 0)
\* ------------------------------------------------------------------------

MantBits == 53

DZero == [sg |-> 0, m |-> <<>>, e |-> 0]

NormaliseBy(sg, m, e, tz) == [sg |-> sg, m |-> BShr(m, tz), e |-> e + tz]

Normalise(sg, m, e) ==
    IF m = <<>> \/ sg = 0 THEN DZero ELSE NormaliseBy(sg, m, e, BTrailingZeros(m))

\* exact sum, product and negation of dyadic numbers
DNeg(a) == [a EXCEPT !.sg = -a.sg]

\* the sum of sa * ma * 2^e and sb * mb * 2^e, c the comparison of ma with mb
DAddMant(sa, ma, sb, mb, e, c) ==
    IF sa = sb THEN Normalise(sa, BAdd(ma, mb), e)
    ELSE IF c = 0 THEN DZero
    ELSE IF c > 0 THEN Normalise(sa, BSub(ma, mb), e)
    ELSE Normalise(sb, BSub(mb, ma), e)

DAddAligned(sa, ma, sb, mb, e) == DAddMant(sa, ma, sb, mb, e, BCmp(ma, mb))

DAddAt(a, b, e) == DAddAligned(a.sg, BShl(a.m, a.e - e), b.sg, BShl(b.m, b.e - e), e)

DAdd(a, b) ==
    IF a.sg = 0 THEN b
    ELSE IF b.sg = 0 THEN a
    ELSE DAddAt(a, b, IF a.e < b.e THEN a.e ELSE b.e)

DMul(a, b) == Normalise(a.sg * b.sg, BMul(a.m, b.m), a.e + b.e)

\* round to nearest, ties to even, at MantBits significant bits
\* a with its t low bits dropped: qh the kept bits, rounded up when the highest
\* dropped bit is set and either a lower one is (m is odd, so t >= 2 says so)
\* or qh is odd
RoundDrop(a, t, qh) ==
    Normalise(a.sg,
              IF BBit(a.m, t - 1) = 1 /\ (t >= 2 \/ BIsOdd(qh))
              THEN BAddC(qh, <<>>, 1) ELSE qh,
              a.e + t)

RoundBy(a, t) == IF t <= 0 THEN a ELSE RoundDrop(a, t, BShr(a.m, t))

Round(a) == RoundBy(a, BBitLen(a.m) - MantBits)

\* the double operators of the program
FAdd(a, b) == Round(DAdd(a, b))

FSub(a, b) == Round(DAdd(a, DNeg(b)))

FMul(a, b) == Round(DMul(a, b))

\* a / b for b # 0.  Every divisor of the program is a small integer converted
\* to double (a row count, 2., a power of ten), so its significand is a single
\* limb.  The quotient is taken to at least MantBits + 1 bits and a non-zero
\* remainder is kept as one more (sticky) low bit.
FDivRem(sg, e, q, r) ==
    IF r = <<>> THEN Round(Normalise(sg, q, e))
    ELSE Round([sg |-> sg, m |-> BAddC(BShl(q, 1), <<>>, 1), e |-> e - 1])

FDivQuot(sg, e, n, d, q) == FDivRem(sg, e, q, BSub(n, BMulSmall(q, d)))

FDivNum(sg, e, n, d) == FDivQuot(sg, e, n, d, BDivSmall(n, d))

FDivShift(a, b, k) == FDivNum(a.sg * b.sg, a.e - b.e - k, BShl(a.m, k), b.m[1])

FDivBits(a, b, d) == FDivShift(a, b, IF d > 0 THEN d ELSE 0)

FDiv(a, b) ==
    IF a.sg = 0 THEN DZero
    ELSE FDivBits(a, b, MantBits + 1 + BBitLen(b.m) - BBitLen(a.m))

\* a * b + c: rounded once when the build contracts it to a fused
\* multiply-add, twice otherwise
FMulAdd(a, b, c, fused) ==
    IF fused THEN Round(DAdd(DMul(a, b), c)) ELSE FAdd(FMul(a, b), c)

\* static_cast<double>(n) of a small integer, and literals
FromInt(n) ==
    IF n = 0 THEN DZero
    ELSE IF n < 0 THEN Normalise(-1, BFromNat(-n), 0)
    ELSE Normalise(1, BFromNat(n), 0)

Half == [sg |-> 1, m |-> <<1>>, e |-> -1]

Sign(a) == a.sg

FLt(a, b) == Sign(DAdd(a, DNeg(b))) < 0

FGt(a, b) == FLt(b, a)

FLe(a, b) == ~FLt(b, a)

\* ------------------------------------------------------------------------
\* Bounds of the model
\* ------------------------------------------------------------------------

\* largest N of the generated O<N> and F<N> names
MaxGaussN == 7

\* largest first and second number of the generated LL<Ni>x<Nj> names
MaxLLNi == 4

MaxLLNj == 1

\* largest N, Ni and Nj of the names handed to Grid::build on its own
MaxBuildN == 10

MaxBuildNi == 2

MaxBuildNj == 10

\* ------------------------------------------------------------------------
\* Strings: sequences of one-character strings
\* ------------------------------------------------------------------------

DigitChars == <<"0", "1", "2", "3", "4", "5", "6", "7", "8", "9">>

IsDigit(c) == \E k \in 1..10 : DigitChars[k] = c

DigitVal(c) == (CHOOSE k \in 1..10 : DigitChars[k] = c) - 1

AllDigits(s) == \A k \in 1..Len(s) : IsDigit(s[k])

\* std::to_string of a non-negative integer (used to write the option values)
RECURSIVE to_string(_)
to_string(n) ==
    IF n < 10 THEN <<DigitChars[n + 1]>>
    ELSE to_string(n \div 10) \o <<DigitChars[(n % 10) + 1]>>

\* std::stol on a string of digits
RECURSIVE StolAcc(_, _)
StolAcc(s, acc) ==
    IF s = <<>> THEN acc ELSE StolAcc(Tail(s), acc * 10 + DigitVal(Head(s)))

stol(s) == StolAcc(s, 0)

\* the group with [0-9]+ for [1-9][0-9]*
IsDigits(s) == Len(s) >= 1 /\ AllDigits(s)

\* the regex group ([1-9][0-9]*)
IsPosInt(s) == Len(s) >= 1 /\ IsDigit(s[1]) /\ s[1] # "0" /\ AllDigits(s)

\* positions of character c in s
Positions(s, c) == {k \in 1..Len(s) : s[k] = c}

\* ------------------------------------------------------------------------
\* Area
\* ------------------------------------------------------------------------

NoArea == [N |-> DZero, W |-> DZero, S |-> DZero, E |-> DZero]

\* the check without the upper bound of N
AreaCheckNorthUnbounded(area) ==
    /\ FLe(FromInt(-90), area.S) /\ FLe(area.S, area.N)
    /\ FLe(area.W, area.E) /\ FLe(area.E, FAdd(area.W, FromInt(360)))

\* Area::check: the two assertions on the bounds
AreaCheck(area) ==
    /\ FLe(FromInt(-90), area.S) /\ FLe(area.S, area.N) /\ FLe(area.N, FromInt(90))
    /\ FLe(area.W, area.E) /\ FLe(area.E, FAdd(area.W, FromInt(360)))

\* the regex x = ([+-]?([0-9]+([.][0-9]*)?|[.][0-9]+)) on a whole field
Unsigned(f) == IF f # <<>> /\ Head(f) \in {"+", "-"} THEN Tail(f) ELSE f

\* a decimal point with no digit on either side taken as a number
IsDecimalOrPoint(ip, fp) == AllDigits(ip) /\ AllDigits(fp)

\* the digits before (ip) and after (fp) the decimal point at position d
IsDecimal(ip, fp) == AllDigits(ip) /\ AllDigits(fp) /\ (ip # <<>> \/ fp # <<>>)

IsUnsignedNumber(u) ==
    \/ u # <<>> /\ AllDigits(u)
    \/ /\ Cardinality(Positions(u, ".")) = 1
       /\ IsDecimal(SubSeq(u, 1, (CHOOSE k \in Positions(u, ".") : TRUE) - 1),
                    SubSeq(u, (CHOOSE k \in Positions(u, ".") : TRUE) + 1, Len(u)))

IsNumber(f) == IsUnsignedNumber(Unsigned(f))

\* std::stod on a field that matches x: the decimal digits over a power of ten,
\* rounded once
StodDigits(ip, fp) == FDiv(FromInt(stol(ip \o fp)), FromInt(10 ^ Len(fp)))

StodAt(u, d) == StodDigits(SubSeq(u, 1, d - 1), SubSeq(u, d + 1, Len(u)))

StodUnsigned(u) ==
    StodAt(u, IF Positions(u, ".") = {} THEN Len(u) + 1
              ELSE CHOOSE k \in Positions(u, ".") : TRUE)

Negative(f) == f # <<>> /\ Head(f) = "-"

StodSigned(neg, v) == IF neg THEN DNeg(v) ELSE v

stod(f) == StodSigned(Negative(f), StodUnsigned(Unsigned(f)))

\* the fields of s between the separators c
Min(ps) == CHOOSE q \in ps : \A r \in ps : q <= r

RECURSIVE Split(_, _)
SplitAt(s, c, k) == <<SubSeq(s, 1, k - 1)>> \o Split(SubSeq(s, k + 1, Len(s)), c)

Split(s, c) == IF Positions(s, c) = {} THEN <<s>> ELSE SplitAt(s, c, Min(Positions(s, c)))

\* std::regex_match(NWSE, match, NWSEx)
FieldsMatch(fs) == Len(fs) = 4 /\ \A k \in 1..4 : IsNumber(fs[k])

MatchNWSE(str) == FieldsMatch(Split(str, "/"))

\* Area::Area(const std::string&): err names the assertion that failed
\* Area::Area(double, double, double, double)
Checked(a) ==
    IF AreaCheck(a) THEN [err |-> "none", area |-> a]
    ELSE [err |-> "assert check", area |-> NoArea]

AreaFromBounds(n, w, s, e) == Checked([N |-> n, W |-> w, S |-> s, E |-> e])

AreaFromFields(fs) ==
    IF ~FieldsMatch(fs) THEN [err |-> "assert regex_match", area |-> NoArea]
    ELSE AreaFromBounds(stod(fs[1]), stod(fs[2]), stod(fs[3]), stod(fs[4]))

AreaFromString(str) == AreaFromFields(Split(str, "/"))

\* Area::operator==
AreaEq(a, b) == a.N = b.N /\ a.W = b.W /\ a.S = b.S /\ a.E = b.E

includesNorthPole(a) == a.N = FromInt(90)

includesSouthPole(a) == a.S = FromInt(-90)

isPeriodicWestEast(a) == a.E = FAdd(a.W, FromInt(360))

isGlobal(a) == includesNorthPole(a) /\ includesSouthPole(a) /\ isPeriodicWestEast(a)

GLOBE_STR == <<"9", "0", "/", "0", "/", "-", "9", "0", "/", "3", "6", "0">>

GLOBE == AreaFromString(GLOBE_STR).area

\* the area taken for the globe when isGlobal() holds
IsGlobeByPoles(area) == isGlobal(area)

\* area == GLOBE
IsGlobe(area) == AreaEq(area, GLOBE)

\* ------------------------------------------------------------------------
\* Grids
\* ------------------------------------------------------------------------

NoGrid == [kind |-> "none", N_ |-> <<>>, area |-> NoArea]

Nj(g) == Len(g.N_)

Ni(g, j) == g.N_[j + 1]

\* the loop of OGrid::OGrid: a runs forwards from begin(), b backwards from
\* rbegin(), both written with 20 + i * 4
\* the rows growing by 4 * N instead of by 4
RECURSIVE OGridLoopTimesN(_, _, _)
OGridLoopTimesN(v, i, N) ==
    IF i >= N THEN v
    ELSE OGridLoopTimesN([v EXCEPT ![i + 1] = 20 + i * 4 * N, ![2 * N - i] = 20 + i * 4 * N],
                         i + 1, N)

RECURSIVE OGridLoop(_, _, _)
OGridLoop(v, i, N) ==
    IF i >= N THEN v
    ELSE OGridLoop([v EXCEPT ![i + 1] = 20 + i * 4, ![2 * N - i] = 20 + i * 4], i + 1, N)

\* the constructors: err names the assertion that failed
OGrid(N, area) ==
    IF ~IsGlobe(area) THEN [err |-> "assert area == GLOBE", grid |-> NoGrid]
    ELSE IF ~(N > 0) THEN [err |-> "assert N > 0", grid |-> NoGrid]
    ELSE [err |-> "none",
          grid |-> [kind |-> "O", N_ |-> OGridLoop(Zeros(2 * N), 0, N), area |-> area]]

FGrid(N, area) ==
    IF ~IsGlobe(area) THEN [err |-> "assert area == GLOBE", grid |-> NoGrid]
    ELSE IF ~(N > 0) THEN [err |-> "assert N > 0", grid |-> NoGrid]
    ELSE [err |-> "none",
          grid |-> [kind |-> "F", N_ |-> [j \in 1..(2 * N) |-> 4 * N], area |-> area]]

\* N_.assign(Ni, Nj) is std::vector::assign(count, value): Ni elements equal to Nj
LLGrid(ni, nj, area) ==
    IF ~(ni > 0 /\ nj > 0) THEN [err |-> "assert Ni > 0 && Nj > 0", grid |-> NoGrid]
    ELSE [err |-> "none",
          grid |-> [kind |-> "LL", N_ |-> [j \in 1..ni |-> nj], area |-> area]]

\* the three regular expressions of Grid::build
MatchOctahedral(name) ==
    Len(name) >= 2 /\ name[1] \in {"O", "o"} /\ IsPosInt(Tail(name))

MatchRegularGG(name) ==
    Len(name) >= 2 /\ name[1] \in {"F", "f"} /\ IsPosInt(Tail(name))

\* the first group read from behind the "x"
LLGroup1AfterX(name, k) == SubSeq(name, k + 1, Len(name))

\* the two groups of regular_ll, k the position of the "x"
LLGroup1(name, k) == SubSeq(name, 3, k - 1)

LLGroup2(name, k) == SubSeq(name, k + 1, Len(name))

MatchRegularLLAt(name, k) == IsPosInt(LLGroup1(name, k)) /\ IsPosInt(LLGroup2(name, k))

MatchRegularLL(name) ==
    /\ Len(name) >= 5 /\ name[1] = "L" /\ name[2] = "L"
    /\ Cardinality(Positions(name, "x")) = 1
    /\ MatchRegularLLAt(name, Min(Positions(name, "x")))

\* the characters of s as one string
RECURSIVE StdString(_)
StdString(s) == IF s = <<>> THEN "" ELSE Head(s) \o StdString(Tail(s))

\* the exception without the name in its message
UnrecognizedGridUnnamed(name) == "runtime_error Unrecognized grid"

\* throw std::runtime_error("Unrecognized grid '" + name + "'")
UnrecognizedGrid(name) == "runtime_error Unrecognized grid '" \o StdString(name) \o "'"

\* Grid::build: the exception leaves main uncaught (main catches only the
\* option parser's exceptions)
GridBuild(name, area) ==
    IF MatchOctahedral(name) THEN OGrid(stol(Tail(name)), area)
    ELSE IF MatchRegularGG(name) THEN FGrid(stol(Tail(name)), area)
    ELSE IF MatchRegularLL(name)
    THEN LLGrid(stol(LLGroup1(name, Min(Positions(name, "x")))),
                stol(LLGroup2(name, Min(Positions(name, "x")))), area)
    ELSE [err |-> UnrecognizedGrid(name), grid |-> NoGrid]

\* linear_spacing_n: count values a + i * dx; ok is its assertion
LinearSpacingOk(count, a, b) == 1 < count /\ a # b

LinearSpacing(count, a, dx, fused) ==
    [k \in 1..count |-> FMulAdd(FromInt(k - 1), dx, a, fused)]

linear_spacing_n(count, a, b, endpoint, fused) ==
    LinearSpacing(count, a,
                  FDiv(FSub(b, a), FromInt(count - (IF endpoint THEN 1 ELSE 0))), fused)

\* the loop of GaussianGrid::Xj: *a = 90. - dx * (i + 0.5); *b = -*a
RECURSIVE GaussianLoop(_, _, _, _, _)
\* the southern row written without the negation
GaussianStoreCopied(v, i, N, dx, fused, a) ==
    GaussianLoop([v EXCEPT ![i + 1] = a, ![2 * N - i] = a], i + 1, N, dx, fused)

GaussianStore(v, i, N, dx, fused, a) ==
    GaussianLoop([v EXCEPT ![i + 1] = a, ![2 * N - i] = DNeg(a)], i + 1, N, dx, fused)

GaussianLoop(v, i, N, dx, fused) ==
    IF i >= N THEN v
    ELSE GaussianStore(v, i, N, dx, fused,
                       FMulAdd(DNeg(dx), FAdd(FromInt(i), Half), FromInt(90), fused))

GaussianXjOk(g) == 0 < Nj(g) \div 2 /\ (Nj(g) \div 2) * 2 = Nj(g)

\* the spacing taken over the number of rows instead of over N
GaussianXjNOverRows(N, fused) ==
    GaussianLoop([k \in 1..(2 * N) |-> DZero], 0, N, FDiv(FromInt(90), FromInt(2 * N)), fused)

GaussianXjN(N, fused) ==
    GaussianLoop([k \in 1..(2 * N) |-> DZero], 0, N, FDiv(FromInt(90), FromInt(N)), fused)

GaussianXj(g, fused) == GaussianXjN(Nj(g) \div 2, fused)

\* Grid::Xj (virtual): ok is the assertion on the way, x the latitudes
XjOk(g) ==
    IF g.kind = "LL" THEN LinearSpacingOk(Nj(g), g.area.N, g.area.S)
    ELSE GaussianXjOk(g)

Xj(g, fused) ==
    IF g.kind = "LL" THEN linear_spacing_n(Nj(g), g.area.N, g.area.S, TRUE, fused)
    ELSE GaussianXj(g, fused)

\* Grid::firstXj and Grid::lastXj (virtual) of the variant that keeps no Xj
firstXj(g) ==
    IF g.kind = "LL" THEN g.area.N
    ELSE FSub(g.area.N, FDiv(FromInt(90), FromInt(Nj(g))))

lastXj(g) ==
    IF g.kind = "LL" THEN g.area.S
    ELSE FAdd(g.area.S, FDiv(FromInt(90), FromInt(Nj(g))))

\* ------------------------------------------------------------------------
\* Boundaries (midpoint_t: x the latitude, i the label)
\* ------------------------------------------------------------------------

midpoint_t(x, i) == [x |-> x, i |-> i]

\* writes w[1..Len(w)] into buf from position first on
WriteAt(buf, first, w) ==
    [k \in 1..Len(buf) |->
        IF first <= k /\ k < first + Len(w) THEN w[k - first + 1] ELSE buf[k]]

\* fill_midpoints: x - dx for every point, then a over the first and b after
\* the last; ok is its assertion, the result the buffer and the advanced first
FillMidpointsOk(points) == 1 < Len(points)

\* the loop with the half spacing added instead of subtracted
MidpointsLoopAdded(points, dx, label) ==
    [k \in 1..Len(points) |-> midpoint_t(FAdd(points[k], dx), label)]

\* the loop of fill_midpoints: *first++ = {x - dx, label}
MidpointsLoop(points, dx, label) ==
    [k \in 1..Len(points) |-> midpoint_t(FSub(points[k], dx), label)]

\* the first edge left as the loop wrote it
MidpointsEndsFirstKept(w, a, b, label) == w \o <<midpoint_t(b, label)>>

\* *it = {a, label}; *first++ = {b, label}
MidpointsEnds(w, a, b, label) ==
    [w EXCEPT ![1] = midpoint_t(a, label)] \o <<midpoint_t(b, label)>>

fill_midpoints(buf, first, points, a, b, label) ==
    [Mj |-> WriteAt(buf, first,
                    MidpointsEnds(MidpointsLoop(points,
                                                FDiv(FSub(points[2], points[1]), FromInt(2)),
                                                label),
                                  a, b, label)),
     it |-> first + Len(points) + 1]

\* the assertion asking for three rows
FillMidpointsNOkOverTwo(count) == 2 < count

\* fill_midpoints_n: lim0, then x0 + i * dx for i in [1, count), then lim1
FillMidpointsNOk(count) == 1 < count

\* *first++ = {lim0, label}, then the loop *first++ = {x0 + i * dx, label}
MidpointsNLoop(count, x0, dx, lim0, label, fused) ==
    [k \in 1..count |->
        IF k = 1 THEN midpoint_t(lim0, label)
        ELSE midpoint_t(FMulAdd(FromInt(k - 1), dx, x0, fused), label)]

\* if (endpoint) *first++ = {lim1, label}
MidpointsNEnd(w, lim1, label, endpoint) ==
    IF endpoint THEN w \o <<midpoint_t(lim1, label)>> ELSE w

MidpointsNWrite(buf, first, w) == [Mj |-> WriteAt(buf, first, w), it |-> first + Len(w)]

\* x0 -= 0.5 * dx
MidpointsNFrom(buf, first, count, x0, dx, lim0, lim1, label, endpoint, fused) ==
    MidpointsNWrite(buf, first,
        MidpointsNEnd(MidpointsNLoop(count, FMulAdd(DNeg(Half), dx, x0, fused), dx,
                                     lim0, label, fused),
                      lim1, label, endpoint))

fill_midpoints_n(buf, first, count, x0, x1, lim0, lim1, label, endpoint, fused) ==
    MidpointsNFrom(buf, first, count, x0,
                   FDiv(FSub(x1, x0), FromInt(count - (IF endpoint THEN 1 ELSE 0))),
                   lim0, lim1, label, endpoint, fused)

\* the comparator with the tie on the label taken the other way round
MergeCompTargetFirst(a, b) == FGt(a.x, b.x) \/ (a.x = b.x /\ a.i > b.i)

\* the comparator of the merge
MergeComp(a, b) == FGt(a.x, b.x) \/ (a.x = b.x /\ a.i < b.i)

\* std::inplace_merge(begin, begin + middle, end, comp): the stable merge of
\* the two runs; an element of the second run goes first only when it compares
\* before the head of the first run
RECURSIVE MergeRuns(_, _)
MergeRuns(r1, r2) ==
    IF r1 = <<>> THEN r2
    ELSE IF r2 = <<>> THEN r1
    ELSE IF MergeComp(Head(r2), Head(r1)) THEN <<Head(r2)>> \o MergeRuns(r1, Tail(r2))
    ELSE <<Head(r1)>> \o MergeRuns(Tail(r1), r2)

\* the two runs left as they were written
inplace_merge_unmerged(buf, mid) == buf

inplace_merge(buf, mid) ==
    MergeRuns(SubSeq(buf, 1, mid), SubSeq(buf, mid + 1, Len(buf)))

\* ------------------------------------------------------------------------
\* The program: main of the variant that builds the edges from Xj()
\* (builder = "fill_midpoints") or from firstXj()/lastXj()
\* (builder = "fill_midpoints_n")
\* ------------------------------------------------------------------------

VARIABLES
    fpContract,   \* the build contracts a * b + c into a fused multiply-add
    builder,      \* which of the two variants of main runs
    inputGrid, inputArea, outputGrid, outputArea,   \* the option values
    Gin, Gout,    \* the grids
    Mj,           \* the buffer of latitude edges
    it,           \* the write iterator into Mj, as a position from 1
    middle,       \* the length of the first run handed to std::inplace_merge
    pc,           \* the statement main is at
    err           \* the assertion or exception that ended the run

vars == <<fpContract, builder, inputGrid, inputArea, outputGrid, outputArea,
          Gin, Gout, Mj, it, middle, pc, err>>

\* option values the runs are made with
GaussianNames ==
    {<<c>> \o to_string(n) : c \in {"O", "F"}, n \in 1..MaxGaussN}

LLNames ==
    {<<"L", "L">> \o to_string(a) \o <<"x">> \o to_string(b) :
        a \in 1..MaxLLNi, b \in 1..MaxLLNj}

OtherNames == {<<"o", "1">>, <<"X", "7">>}

GridNames == GaussianNames \cup LLNames \cup OtherNames

AreaStrings ==
    { GLOBE_STR,
      <<"1", "/", "0", "/", ".", "1", "/", "1">>,
      <<"0", "/", "0", "/", "0", "/", "0">> }

Builders == {"fill_midpoints", "fill_midpoints_n"}

Init ==
    /\ fpContract \in BOOLEAN
    /\ builder \in Builders
    /\ inputGrid \in GridNames
    /\ inputArea \in AreaStrings
    /\ outputGrid \in GridNames
    /\ outputArea \in AreaStrings
    /\ Gin = NoGrid
    /\ Gout = NoGrid
    /\ Mj = <<>>
    /\ it = 1
    /\ middle = 0
    /\ pc = "BuildGin"
    /\ err = "none"

\* Grid::build(name, Area(str)): the area is constructed first
BuildIn(name, a) ==
    IF a.err # "none" THEN [err |-> a.err, grid |-> NoGrid] ELSE GridBuild(name, a.area)

BuildFrom(name, str) == BuildIn(name, AreaFromString(str))

Abort(e) == pc' = "aborted" /\ err' = e

GinBuilt(r) ==
    IF r.err # "none" THEN Abort(r.err) /\ UNCHANGED Gin
    ELSE Gin' = r.grid /\ pc' = "BuildGout" /\ UNCHANGED err

BuildGin ==
    /\ pc = "BuildGin"
    /\ GinBuilt(BuildFrom(inputGrid, inputArea))
    /\ UNCHANGED <<fpContract, builder, inputGrid, inputArea, outputGrid, outputArea,
                   Gout, Mj, it, middle>>

GoutBuilt(r) ==
    IF r.err # "none" THEN Abort(r.err) /\ UNCHANGED Gout
    ELSE Gout' = r.grid /\ pc' = "AllocMj" /\ UNCHANGED err

BuildGout ==
    /\ pc = "BuildGout"
    /\ GoutBuilt(BuildFrom(outputGrid, outputArea))
    /\ UNCHANGED <<fpContract, builder, inputGrid, inputArea, outputGrid, outputArea,
                   Gin, Mj, it, middle>>

\* std::vector<midpoint_t> Mj(Gin->Nj() + 1 + Gout->Nj() + 1); it = Mj.begin()
AllocMj ==
    /\ pc = "AllocMj"
    /\ Mj' = [k \in 1..(Nj(Gin) + 1 + Nj(Gout) + 1) |-> midpoint_t(DZero, 0)]
    /\ it' = 1
    /\ pc' = "FillIn"
    /\ UNCHANGED <<fpContract, builder, inputGrid, inputArea, outputGrid, outputArea,
                   Gin, Gout, middle, err>>

\* the call that writes the edges of grid g with the given label
FillFrom(g, points, label) ==
    IF ~FillMidpointsOk(points)
    THEN [err |-> "assert fill_midpoints", Mj |-> Mj, it |-> it]
    ELSE [err |-> "none"] @@ fill_midpoints(Mj, it, points, g.area.N, g.area.S, label)

Fill(g, label) ==
    IF builder = "fill_midpoints"
    THEN IF ~XjOk(g)
         THEN [err |-> "assert linear_spacing_n", Mj |-> Mj, it |-> it]
         ELSE FillFrom(g, Xj(g, fpContract), label)
    ELSE IF ~FillMidpointsNOk(Nj(g))
         THEN [err |-> "assert fill_midpoints_n", Mj |-> Mj, it |-> it]
         ELSE [err |-> "none"] @@
              fill_midpoints_n(Mj, it, Nj(g), firstXj(g), lastXj(g),
                               g.area.N, g.area.S, label, TRUE, fpContract)

Filled(r, then) ==
    IF r.err # "none" THEN Abort(r.err) /\ UNCHANGED <<Mj, it>>
    ELSE Mj' = r.Mj /\ it' = r.it /\ pc' = then /\ UNCHANGED err

FillIn ==
    /\ pc = "FillIn"
    /\ Filled(Fill(Gin, 0), "FillOut")
    /\ UNCHANGED <<fpContract, builder, inputGrid, inputArea, outputGrid, outputArea,
                   Gin, Gout, middle>>

FillOut ==
    /\ pc = "FillOut"
    /\ Filled(Fill(Gout, 1), "AssertEnd")
    /\ UNCHANGED <<fpContract, builder, inputGrid, inputArea, outputGrid, outputArea,
                   Gin, Gout, middle>>

\* assert(it == Mj.end())
AssertEnd ==
    /\ pc = "AssertEnd"
    /\ IF it = Len(Mj) + 1 THEN pc' = "Merge" /\ UNCHANGED err
       ELSE Abort("assert it == Mj.end()")
    /\ UNCHANGED <<fpContract, builder, inputGrid, inputArea, outputGrid, outputArea,
                   Gin, Gout, Mj, it, middle>>

\* std::inplace_merge(Mj.begin(), Mj.begin() + Gin->Nj() + 1, Mj.end(), comp)
Merge ==
    /\ pc = "Merge"
    /\ middle' = Nj(Gin) + 1
    /\ Mj' = inplace_merge(Mj, Nj(Gin) + 1)
    /\ pc' = "done"
    /\ UNCHANGED <<fpContract, builder, inputGrid, inputArea, outputGrid, outputArea,
                   Gin, Gout, it, err>>

Next == BuildGin \/ BuildGout \/ AllocMj \/ FillIn \/ FillOut \/ AssertEnd \/ Merge

Spec == Init /\ [][Next]_vars

\* ------------------------------------------------------------------------
\* The merge on its own: any two runs that are non-increasing in latitude
\* ------------------------------------------------------------------------

\* longest source and target run
MaxSourceLen == 3

MaxTargetLen == 4

\* the latitudes the runs are made of
MergeLatitudes == {FromInt(v) : v \in {90, 30, 0, -30, -90}}

NonIncreasing(run) == \A k \in 1..(Len(run) - 1) : FLe(run[k + 1].x, run[k].x)

Labelled(xs, label) == [k \in 1..Len(xs) |-> midpoint_t(xs[k], label)]

Runs(maxLen, label) ==
    {run \in {Labelled(xs, label) : xs \in UNION {[1..n -> MergeLatitudes] : n \in 0..maxLen}} :
        NonIncreasing(run)}

SourceRuns == Runs(MaxSourceLen, 0)

TargetRuns == Runs(MaxTargetLen, 1)

InitMerge ==
    /\ \E source \in SourceRuns, target \in TargetRuns :
          Mj = source \o target /\ middle = Len(source)
    /\ fpContract = FALSE
    /\ builder = "fill_midpoints"
    /\ inputGrid = <<>> /\ inputArea = <<>> /\ outputGrid = <<>> /\ outputArea = <<>>
    /\ Gin = NoGrid /\ Gout = NoGrid
    /\ it = 1
    /\ pc = "inplace_merge"
    /\ err = "none"

\* std::inplace_merge(Mj.begin(), Mj.begin() + middle, Mj.end(), comp)
MergeCall ==
    /\ pc = "inplace_merge"
    /\ Mj' = inplace_merge(Mj, middle)
    /\ pc' = "merged"
    /\ UNCHANGED <<fpContract, builder, inputGrid, inputArea, outputGrid, outputArea,
                   Gin, Gout, it, middle, err>>

SpecMerge == InitMerge /\ [][MergeCall]_vars

\* ------------------------------------------------------------------------
\* Properties of the merge
\* ------------------------------------------------------------------------

WithLabel(run, label) == SelectSeq(run, LAMBDA p : p.i = label)

\* C1: the merge of a non-increasing source run (label 0) with a non-increasing
\* target run (label 1) has as many points as the two runs together, holds the
\* points of each run in the order they had in it (so it is a permutation of
\* the input), and is non-increasing in latitude.
C1_MergeIsStableSortedMerge ==
    [][pc = "inplace_merge" =>
          /\ Len(Mj') = Len(Mj)
          /\ WithLabel(Mj', 0) = SubSeq(Mj, 1, middle)
          /\ WithLabel(Mj', 1) = SubSeq(Mj, middle + 1, Len(Mj))
          /\ NonIncreasing(Mj')]_vars

\* a merge that had to interleave: a source point, then a target point, then a
\* source point again, out of runs of the full length
C1_Witness ==
    /\ pc = "merged"
    /\ Len(Mj) = MaxSourceLen + MaxTargetLen
    /\ \E p, q, r \in 1..Len(Mj) :
          p < q /\ q < r /\ Mj[p].i = 0 /\ Mj[q].i = 1 /\ Mj[r].i = 0
          /\ FGt(Mj[p].x, Mj[q].x) /\ FGt(Mj[q].x, Mj[r].x)

ScenarioSource == Labelled(<<FromInt(90), FromInt(0), FromInt(-90)>>, 0)

ScenarioTarget == Labelled(<<FromInt(90), FromInt(30), FromInt(-30), FromInt(-90)>>, 1)

ScenarioMerged ==
    << midpoint_t(FromInt(90), 0), midpoint_t(FromInt(90), 1), midpoint_t(FromInt(30), 1),
       midpoint_t(FromInt(0), 0), midpoint_t(FromInt(-30), 1), midpoint_t(FromInt(-90), 0),
       midpoint_t(FromInt(-90), 1) >>

SourceBeforeTargetOnTies(run) ==
    \A p, q \in 1..Len(run) :
        run[p].x = run[q].x /\ run[p].i = 0 /\ run[q].i = 1 => p < q

\* C2: in the merged sequence a source point (label 0) stands before every
\* target point (label 1) of the same latitude, and merging [90, 0, -90] with
\* [90, 30, -30, -90] gives [90(0), 90(1), 30(1), 0(0), -30(1), -90(0), -90(1)].
C2_SourceBeforeTargetOnTies ==
    [][pc = "inplace_merge" =>
          /\ SourceBeforeTargetOnTies(Mj')
          /\ (Mj = ScenarioSource \o ScenarioTarget /\ middle = 3 => Mj' = ScenarioMerged)]_vars

\* the merge of the scenario, which has a tie at both poles
C2_Witness == pc = "merged" /\ Mj = ScenarioMerged

\* ------------------------------------------------------------------------
\* Properties of the boundary builders
\* ------------------------------------------------------------------------

\* buf2 is buf outside the positions first..last
Untouched(buf, buf2, first, last) ==
    /\ Len(buf2) = Len(buf)
    /\ \A k \in 1..Len(buf) : (k < first \/ k > last) => buf2[k] = buf[k]

\* positions first..last of buf are the Nj + 1 edges of grid g with the label
WroteEdges(buf, first, last, g, label) ==
    /\ last = first + Nj(g)
    /\ buf[first].x = g.area.N
    /\ buf[last].x = g.area.S
    /\ \A k \in first..last : buf[k].i = label

\* the call for grid g gets past its assertions
BuilderRuns(g) == Nj(g) >= 2 /\ (builder = "fill_midpoints" => XjOk(g))

\* C3: for a grid of Nj >= 2 rows and a label L the builder writes exactly
\* Nj + 1 points and nothing else: the first at the North bound of the area,
\* the last at the South bound, every one labelled L; after the source and the
\* target call the iterator is at the end of the buffer of
\* NjSource + 1 + NjTarget + 1 points, so the assertion it == Mj.end() holds.
C3_BuilderWritesNjPlusOne ==
    [][/\ (pc = "FillIn" /\ BuilderRuns(Gin)) =>
              /\ pc' = "FillOut"
              /\ it = 1
              /\ WroteEdges(Mj', it, it' - 1, Gin, 0)
              /\ Untouched(Mj, Mj', it, it' - 1)
       /\ (pc = "FillOut" /\ BuilderRuns(Gout)) =>
              /\ pc' = "AssertEnd"
              /\ WroteEdges(Mj', it, it' - 1, Gout, 1)
              /\ Untouched(Mj, Mj', it, it' - 1)
              /\ Len(Mj') = Nj(Gin) + 1 + Nj(Gout) + 1
              /\ it' = Len(Mj') + 1
       /\ pc = "AssertEnd" => pc' = "Merge"]_vars

\* both calls made, for grids of different kinds and lengths
C3_Witness ==
    /\ pc = "Merge"
    /\ Gin.kind = "LL" /\ Nj(Gin) = 3
    /\ Gout.kind = "O" /\ Nj(Gout) = 4
    /\ Len(Mj) = 9 /\ it = 10
    /\ Mj[4].i = 0 /\ Mj[5].i = 1 /\ Mj[5].x = FromInt(90)

\* (a + b) / 2
Midpoint(a, b) == FDiv(FAdd(a, b), FromInt(2))

\* the edges after position first are the midpoints of consecutive centers
EdgesAreMidpoints(buf, first, centers) ==
    \A i \in 1..(Len(centers) - 1) : buf[first + i].x = Midpoint(centers[i], centers[i + 1])

Latitudes(run) == [k \in 1..Len(run) |-> run[k].x]

\* C4: for a built grid of Nj >= 2 rows the boundary at position i in [1, Nj)
\* is the midpoint (x[i-1] + x[i]) / 2 of the consecutive center latitudes
\* x = Xj(); for F1 over the globe the boundaries are [90, 0, -90].
C4_BoundaryIsMidpoint ==
    /\ (builder = "fill_midpoints" /\ pc \in {"FillOut", "AssertEnd", "Merge"}) =>
           /\ EdgesAreMidpoints(Mj, 1, Xj(Gin, fpContract))
           /\ (Gin.kind = "F" /\ Nj(Gin) = 2) =>
                  Latitudes(SubSeq(Mj, 1, 3)) = <<FromInt(90), FromInt(0), FromInt(-90)>>
    /\ (builder = "fill_midpoints" /\ pc \in {"AssertEnd", "Merge"}) =>
           EdgesAreMidpoints(Mj, Nj(Gin) + 2, Xj(Gout, fpContract))

\* C5: for every grid that is built (O<N>, F<N> over the globe, LL of at least
\* two rows over an accepted area) the boundaries the builder wrote are
\* non-increasing in latitude from North to South, so both runs handed to the
\* merge are sorted as the merge requires.
C5_BoundariesNonIncreasing ==
    /\ pc \in {"FillOut", "AssertEnd", "Merge"} =>
           NonIncreasing(SubSeq(Mj, 1, Nj(Gin) + 1))
    /\ pc \in {"AssertEnd", "Merge"} =>
           NonIncreasing(SubSeq(Mj, Nj(Gin) + 2, Len(Mj)))

\* both runs written, from rounded centers, and about to be merged
C5_Witness ==
    /\ pc = "Merge"
    /\ Gin.kind = "F" /\ Nj(Gin) = 14
    /\ Gout.kind = "LL" /\ Nj(Gout) = 4 /\ Gout.area.S # DZero
    /\ FGt(Mj[1].x, Mj[2].x)

\* ------------------------------------------------------------------------
\* Properties of the grids
\* ------------------------------------------------------------------------

\* main has just built the input grid (Gin is not written again)
GinIsBuilt == pc = "BuildGout"

\* grid g has rows rows of points points each
IsRegular(g, rows, points) ==
    Nj(g) = rows /\ \A j \in 0..(Nj(g) - 1) : Ni(g, j) = points

\* C6: the grid built from LL<Ni>x<Nj> has exactly Nj rows, Nj() = Nj, and
\* every row j has exactly Ni points, Ni(j) = Ni.
C6_LLHasNjRowsOfNiPoints ==
    (GinIsBuilt /\ MatchRegularLL(inputGrid)) =>
        IsRegular(Gin, stol(LLGroup2(inputGrid, Min(Positions(inputGrid, "x")))),
                       stol(LLGroup1(inputGrid, Min(Positions(inputGrid, "x")))))

IsGaussianName(name) == MatchOctahedral(name) \/ MatchRegularGG(name)

\* grid g with centers x has 2N rows, and rows i and 2N-1-i have the same
\* number of points and centers that are the negative of each other
Mirrored(g, centers, N) ==
    /\ Nj(g) = 2 * N
    /\ Len(centers) = 2 * N
    /\ \A i \in 0..(2 * N - 1) :
           /\ Ni(g, i) = Ni(g, 2 * N - 1 - i)
           /\ centers[i + 1] = DNeg(centers[2 * N - i])
           /\ centers[i + 1] # DZero

\* C7: the grids built from O<N> and F<N> over the globe have exactly 2N
\* rows, and rows i and 2N-1-i, for i in [0, 2N), have equal point counts and
\* center latitudes that are negatives of each other.
C7_GaussianSymmetric ==
    (GinIsBuilt /\ IsGaussianName(inputGrid)) =>
        Mirrored(Gin, Xj(Gin, fpContract), stol(Tail(inputGrid)))

\* an octahedral grid, whose rows differ in length, with rounded centers
C7_Witness ==
    /\ pc = "BuildGout"
    /\ Gin.kind = "O" /\ Nj(Gin) = 14
    /\ Ni(Gin, 0) # Ni(Gin, 6) /\ Ni(Gin, 6) = Ni(Gin, 7)

\* 90. - dx * (i + 0.5) with dx = 90. / N, as the build evaluates it
GaussianLatitude(N, i, fused) ==
    FMulAdd(DNeg(FDiv(FromInt(90), FromInt(N))), FAdd(FromInt(i), Half), FromInt(90), fused)

\* 90 / N is a double
SpacingIsExact(N) == DMul(FDiv(FromInt(90), FromInt(N)), FromInt(N)) = FromInt(90)

\* c = 90 - (90 / N) * (i + 0.5) in the reals: c * 2N = 90 * (2N - 2i - 1)
IsExactLatitude(c, N, i) == DMul(c, FromInt(2 * N)) = FromInt(90 * (2 * N - 2 * i - 1))

HasGaussianLatitudes(centers, N, fused) ==
    \A i \in 0..(N - 1) :
        /\ centers[i + 1] = GaussianLatitude(N, i, fused)
        /\ centers[2 * N - i] = DNeg(GaussianLatitude(N, i, fused))
        /\ SpacingIsExact(N) => IsExactLatitude(centers[i + 1], N, i)

\* C8: a grid O<N> or F<N> has at row i in [0, N) the center latitude
\* 90 - (90/N) * (i + 0.5), the value of the double expression (the real value
\* whenever 90/N is a double), and the negation of it at row 2N-1-i; firstXj()
\* and lastXj() are the values of rows 0 and 2N-1; F1 has the center
\* latitudes [45, -45].
C8_GaussianLatitudes ==
    (GinIsBuilt /\ IsGaussianName(inputGrid)) =>
        /\ HasGaussianLatitudes(Xj(Gin, fpContract), stol(Tail(inputGrid)), fpContract)
        /\ firstXj(Gin) = GaussianLatitude(stol(Tail(inputGrid)), 0, fpContract)
        /\ lastXj(Gin) = DNeg(GaussianLatitude(stol(Tail(inputGrid)), 0, fpContract))
        /\ inputGrid = <<"F", "1">> => Xj(Gin, fpContract) = <<FromInt(45), FromInt(-45)>>

\* a grid whose spacing 90/N is rounded, next to its first center
C8_Witness ==
    /\ pc = "BuildGout"
    /\ inputGrid = <<"F", "7">>
    /\ ~SpacingIsExact(7)
    /\ FLt(Xj(Gin, fpContract)[1], FromInt(90))
    /\ FGt(Xj(Gin, fpContract)[1], FromInt(83))

\* rows i and 2N-1-i of g have first + step * i points
RowCounts(g, N, first, step) ==
    /\ Nj(g) = 2 * N
    /\ \A i \in 0..(N - 1) :
           Ni(g, i) = first + step * i /\ Ni(g, 2 * N - 1 - i) = first + step * i

\* C9 as stated: in the grid built from O<N> the row nearest each pole has 20
\* points and the row at pole-relative index i has 20 + 4N * i points.
C9_RowsGrowBy4N ==
    (GinIsBuilt /\ MatchOctahedral(inputGrid)) =>
        RowCounts(Gin, stol(Tail(inputGrid)), 20, 4 * stol(Tail(inputGrid)))

\* C9: in the grid built from O<N> the row nearest each pole has 20 points and
\* the row at pole-relative index i, 0 <= i < N, counted from either pole, has
\* 20 + 4 * i points.
C9_RowsGrowBy4 ==
    (GinIsBuilt /\ MatchOctahedral(inputGrid)) =>
        RowCounts(Gin, stol(Tail(inputGrid)), 20, 4)

\* an octahedral grid on which 4 * i and 4N * i differ
C9_Witness ==
    /\ pc = "BuildGout"
    /\ inputGrid = <<"O", "2">>
    /\ Gin.N_ = <<20, 24, 24, 20>>

\* consecutive centers are the same distance apart, in the reals
EvenlySpaced(centers) ==
    \A k \in 1..(Len(centers) - 2) :
        DAdd(centers[k], DNeg(centers[k + 1])) = DAdd(centers[k + 1], DNeg(centers[k + 2]))

Decreasing(centers) ==
    \A k \in 1..(Len(centers) - 1) : FGt(centers[k], centers[k + 1])

RunsFromNorthToSouth(centers, g) ==
    /\ Len(centers) = Nj(g)
    /\ centers[1] = g.area.N
    /\ centers[Len(centers)] = g.area.S
    /\ EvenlySpaced(centers)
    /\ Decreasing(centers)

\* C10: for an LL grid of at least 2 rows over an area with North > South the
\* center latitudes Xj() start exactly at area.N, end exactly at area.S, are
\* evenly spaced and decreasing, and there are Nj() of them.
C10_LLCentersRunFromNorthToSouth ==
    (GinIsBuilt /\ Gin.kind = "LL" /\ Nj(Gin) >= 2 /\ FGt(Gin.area.N, Gin.area.S)) =>
        RunsFromNorthToSouth(Xj(Gin, fpContract), Gin)

\* ------------------------------------------------------------------------
\* Construction on its own: Area(...) and Grid::build(name, area) as each of
\* the four sources has them (builder names the source)
\* ------------------------------------------------------------------------

Variants == {"part_000", "part_001", "part_002", "part_003"}

\* OGrid and FGrid assert(area == GLOBE) in part_000 and part_002 only
HasGlobeAssert(variant) == variant \in {"part_000", "part_002"}

\* part_001 computes the center latitudes Xj_ in the constructors
KeepsXj(variant) == variant = "part_001"

AreaAccepted(variant, area) == HasGlobeAssert(variant) => IsGlobe(area)

StoreXj(variant, g, centers) == IF KeepsXj(variant) THEN g @@ [Xj_ |-> centers] ELSE g

OGridIn(variant, N, area, fused) ==
    IF ~AreaAccepted(variant, area) THEN [err |-> "assert area == GLOBE", grid |-> NoGrid]
    ELSE IF ~(N > 0) THEN [err |-> "assert N > 0", grid |-> NoGrid]
    ELSE [err |-> "none",
          grid |-> StoreXj(variant,
                           [kind |-> "O", N_ |-> OGridLoop(Zeros(2 * N), 0, N), area |-> area],
                           GaussianXjN(N, fused))]

FGridIn(variant, N, area, fused) ==
    IF ~AreaAccepted(variant, area) THEN [err |-> "assert area == GLOBE", grid |-> NoGrid]
    ELSE IF ~(N > 0) THEN [err |-> "assert N > 0", grid |-> NoGrid]
    ELSE [err |-> "none",
          grid |-> StoreXj(variant,
                           [kind |-> "F", N_ |-> [j \in 1..(2 * N) |-> 4 * N], area |-> area],
                           GaussianXjN(N, fused))]

\* part_001: Xj_.resize(Nj); linear_spacing_n(Xj_.begin(), Nj, area.N(), area.S(), true)
LLGridIn(variant, ni, nj, area, fused) ==
    IF ~(ni > 0 /\ nj > 0) THEN [err |-> "assert Ni > 0 && Nj > 0", grid |-> NoGrid]
    ELSE IF KeepsXj(variant) /\ ~LinearSpacingOk(nj, area.N, area.S)
    THEN [err |-> "assert linear_spacing_n", grid |-> NoGrid]
    ELSE [err |-> "none",
          grid |-> StoreXj(variant,
                           [kind |-> "LL", N_ |-> [j \in 1..ni |-> nj], area |-> area],
                           linear_spacing_n(nj, area.N, area.S, TRUE, fused))]

\* Grid::build of the source named by variant
GridBuildIn(variant, name, area, fused) ==
    IF MatchOctahedral(name) THEN OGridIn(variant, stol(Tail(name)), area, fused)
    ELSE IF MatchRegularGG(name) THEN FGridIn(variant, stol(Tail(name)), area, fused)
    ELSE IF MatchRegularLL(name)
    THEN LLGridIn(variant, stol(LLGroup1(name, Min(Positions(name, "x")))),
                  stol(LLGroup2(name, Min(Positions(name, "x")))), area, fused)
    ELSE [err |-> UnrecognizedGrid(name), grid |-> NoGrid]

\* grid names and area strings the constructions are made with
BuildGaussianNames ==
    {<<c>> \o to_string(n) : c \in {"O", "o", "F", "f"}, n \in 1..MaxBuildN}

BuildLLNames ==
    {<<"L", "L">> \o to_string(a) \o <<"x">> \o to_string(b) :
        a \in 1..MaxBuildNi, b \in 1..MaxBuildNj}

OtherBuildNames ==
    {
      <<"l", "l", "2", "x", "2">>,
      <<"L", "2", "x", "2">>,
      <<"L", "L", "2", "X", "2">>,
      <<"L", "L", "2", "x", "2", "x", "2">>,
      <<"X", "7">>,
      <<"O", "0">>,
      <<"F", "0">>,
      <<"L", "L", "0", "x", "3">>,
      <<"L", "L", "3", "x", "0">>,
      <<"O", "-", "1">>,
      <<"O">>,
      <<"O", "1", "x">>,
      <<"1">>,
      <<"O", "0", "1">>,
      <<>>
    }

BuildNames == BuildGaussianNames \cup BuildLLNames \cup OtherBuildNames

BuildAreaStrings ==
    {
      <<"9", "0", "/", "0", "/", "-", "9", "0", "/", "3", "6", "0">>,
      <<"9", "0", "/", "-", "1", "8", "0", "/", "-", "9", "0", "/", "1", "8", "0">>,
      <<"9", "0", ".", "0", "/", "1", "/", "-", "9", "0", "/", "3", "6", "1">>,
      <<"+", "9", "0", "/", "-", "0", "/", "-", "9", "0", ".", "/", "3", "6", "0", ".", "0">>,
      <<"1", "/", "0", "/", ".", "1", "/", "1">>,
      <<"0", "/", "0", "/", "0", "/", "0">>,
      <<"+", "1", ".", "/", "-", "0", "/", "-", "1", ".", "5", "/", "+", "3", "6", "0", ".">>,
      <<"0", "/", "0", "/", "1", "/", "0">>,
      <<"9", "1", "/", "0", "/", "0", "/", "1">>,
      <<"0", "/", "0", "/", "-", "9", "1", "/", "0">>,
      <<"0", "/", "1", "/", "0", "/", "0">>,
      <<"0", "/", "0", "/", "0", "/", "3", "6", "1">>,
      <<"1", "/", "0", "/", "0">>,
      <<"1", "/", "0", "/", "0", "/", "1", "/", "2">>,
      <<"a", "/", "0", "/", "0", "/", "1">>,
      <<"1", "/", "0", "/", "0", "/", "1", " ">>,
      <<>>,
      <<"1", "/", "/", "0", "/", "1">>,
      <<".", "/", "0", "/", "0", "/", "0">>,
      <<"1", "e", "1", "/", "0", "/", "0", "/", "1">>,
      <<"+", "-", "1", "/", "0", "/", "0", "/", "1">>
    }

\* bounds handed to Area(double, double, double, double), as literals
LatitudeBounds == {"-91.", "-90.", "0.", "90.", "91."}

LongitudeBounds == {"-1.", "0.", "1.", "360.", "361."}

\* the double a literal stands for
LiteralInt(lit) ==
    CASE lit = "-91." -> -91 [] lit = "-90." -> -90 [] lit = "-1." -> -1
      [] lit = "0." -> 0 [] lit = "1." -> 1 [] lit = "90." -> 90 [] lit = "91." -> 91
      [] lit = "360." -> 360 [] lit = "361." -> 361

Literal(lit) == FromInt(LiteralInt(lit))

InitBuild ==
    /\ \/ /\ pc = "AreaFromString"
          /\ builder \in Variants
          /\ fpContract \in BOOLEAN
          /\ inputGrid \in BuildNames
          /\ inputArea \in BuildAreaStrings
       \/ /\ pc = "AreaFromBounds"
          /\ builder = "part_002"
          /\ fpContract = FALSE
          /\ inputGrid = <<"L", "L", "2", "x", "2">>
          /\ inputArea \in LatitudeBounds \X LongitudeBounds \X LatitudeBounds \X LongitudeBounds
    /\ outputGrid = <<>> /\ outputArea = <<>>
    /\ Gin = NoGrid /\ Gout = NoGrid
    /\ Mj = <<>> /\ it = 1 /\ middle = 0
    /\ err = "none"

\* the Area temporary is kept in Gin.area until Grid::build returns
AreaBuilt(r) ==
    IF r.err # "none" THEN Abort(r.err) /\ UNCHANGED Gin
    ELSE Gin' = [NoGrid EXCEPT !.area = r.area] /\ pc' = "GridBuild" /\ UNCHANGED err

\* Area(const std::string&)
AreaFromStringStep ==
    /\ pc = "AreaFromString"
    /\ AreaBuilt(AreaFromString(inputArea))
    /\ UNCHANGED <<fpContract, builder, inputGrid, inputArea, outputGrid, outputArea,
                   Gout, Mj, it, middle>>

\* Area(double _N, double _W, double _S, double _E)
AreaFromBoundsStep ==
    /\ pc = "AreaFromBounds"
    /\ AreaBuilt(AreaFromBounds(Literal(inputArea[1]), Literal(inputArea[2]),
                                Literal(inputArea[3]), Literal(inputArea[4])))
    /\ UNCHANGED <<fpContract, builder, inputGrid, inputArea, outputGrid, outputArea,
                   Gout, Mj, it, middle>>

GridReturned(r) ==
    IF r.err # "none" THEN Abort(r.err) /\ Gin' = NoGrid
    ELSE Gin' = r.grid /\ pc' = "built" /\ UNCHANGED err

\* Grid::build(name, area)
GridBuildStep ==
    /\ pc = "GridBuild"
    /\ GridReturned(GridBuildIn(builder, inputGrid, Gin.area, fpContract))
    /\ UNCHANGED <<fpContract, builder, inputGrid, inputArea, outputGrid, outputArea,
                   Gout, Mj, it, middle>>

NextBuild == AreaFromStringStep \/ AreaFromBoundsStep \/ GridBuildStep

SpecBuild == InitBuild /\ [][NextBuild]_vars

\* ------------------------------------------------------------------------
\* Claims about construction
\* ------------------------------------------------------------------------

\* Grid::build has returned a grid
GridIsBuilt == pc = "built"

\* the grid's center latitudes exist: stored by the constructor, or computed
\* by an Xj() whose assertion holds
HasCenters(variant, g) == KeepsXj(variant) \/ (variant = "part_002" /\ XjOk(g))

CenterLatitudes(variant, g, fused) == IF KeepsXj(variant) THEN g.Xj_ ELSE Xj(g, fused)

\* C11: every constructed grid has as many rows (Nj()) as center latitudes
\* and as row point counts, and every row point count is greater than 0
C11_RowsMatchLatitudes ==
    (GridIsBuilt /\ HasCenters(builder, Gin)) =>
        /\ Nj(Gin) = Len(CenterLatitudes(builder, Gin, fpContract))
        /\ Nj(Gin) = Len(Gin.N_)
        /\ \A j \in 0..(Nj(Gin) - 1) : Ni(Gin, j) > 0

\* Grid::build returns a grid of this kind, with these row point counts, over
\* the area it was given
Returns(kind, counts, area) ==
    pc' = "built" /\ Gin'.kind = kind /\ Gin'.N_ = counts /\ Gin'.area = area

\* the row point counts written by OGrid(N), FGrid(N) and LLGrid(Ni, Nj)
OGridCounts(N) == [j \in 1..(2 * N) |-> 20 + 4 * (IF j <= N THEN j - 1 ELSE 2 * N - j)]

FGridCounts(N) == [j \in 1..(2 * N) |-> 4 * N]

LLGridCounts(ni, nj) == [j \in 1..ni |-> nj]

LLName(first, ni, nj) == <<first, first>> \o to_string(ni) \o <<"x">> \o to_string(nj)

\* the constructor of LLGrid runs to its end
LLGridRuns(variant, nj, area) == KeepsXj(variant) => LinearSpacingOk(nj, area.N, area.S)

BuildsNamedGaussian(N) ==
    /\ (inputGrid \in {<<"O">> \o to_string(N), <<"o">> \o to_string(N)}
            /\ AreaAccepted(builder, Gin.area))
        => Returns("O", OGridCounts(N), Gin.area)
    /\ (inputGrid \in {<<"F">> \o to_string(N), <<"f">> \o to_string(N)}
            /\ AreaAccepted(builder, Gin.area))
        => Returns("F", FGridCounts(N), Gin.area)

BuildsNamedLL(ni, nj) ==
    /\ (inputGrid = LLName("L", ni, nj) /\ LLGridRuns(builder, nj, Gin.area))
        => Returns("LL", LLGridCounts(ni, nj), Gin.area)
    /\ inputGrid = LLName("l", ni, nj) => pc' = "aborted"

\* C12: Grid::build(name, area) returns OGrid(N, area) for O<N> and o<N>,
\* FGrid(N, area) for F<N> and f<N>, and LLGrid(Ni, Nj, area) for LL<Ni>x<Nj>
\* with upper-case LL only, for all positive N, Ni, Nj
C12_BuildReturnsNamedGrid ==
    [][GridBuildStep =>
        /\ \A N \in 1..MaxBuildN : BuildsNamedGaussian(N)
        /\ \A ni \in 1..MaxBuildNi, nj \in 1..MaxBuildNj : BuildsNamedLL(ni, nj)]_vars

C12_Witness ==
    /\ pc = "built" /\ builder = "part_002"
    /\ inputGrid = <<"L", "L", "2", "x", "1", "0">>
    /\ Gin.kind = "LL" /\ Gin.N_ = <<10, 10>> /\ ~IsGlobe(Gin.area)

\* Grid::build ends in the exception e and returns no grid
Throws(e) == pc' = "aborted" /\ err' = e /\ Gin'.kind = "none"

\* C13: for every name that matches none of the three forms, Grid::build
\* fails with the unrecognized-grid error naming that string and returns no
\* grid
C13_UnrecognizedNameThrows ==
    [][GridBuildStep =>
        /\ inputGrid \in OtherBuildNames
            => Throws("runtime_error Unrecognized grid '" \o StdString(inputGrid) \o "'")
        /\ inputGrid = <<"X", "7">> => Throws("runtime_error Unrecognized grid 'X7'")
        /\ inputGrid = <<"L", "L", "2", "X", "2">>
            => Throws("runtime_error Unrecognized grid 'LL2X2'")]_vars

C13_Witness ==
    /\ pc = "aborted" /\ inputGrid = <<"X", "7">>
    /\ err = "runtime_error Unrecognized grid 'X7'" /\ Gin.kind = "none"

\* -90 <= S <= N <= 90 and W <= E <= W + 360, in the arithmetic of double
InRange(n, w, s, e) ==
    /\ FLe(FromInt(-90), s) /\ FLe(s, n) /\ FLe(n, FromInt(90))
    /\ FLe(w, e) /\ FLe(e, FAdd(w, FromInt(360)))

AreaInRange(a) == InRange(a.N, a.W, a.S, a.E)

\* the constructor ends with the Area of these bounds, or with the failed
\* check when they are out of range
ChecksRange(n, w, s, e) ==
    IF InRange(n, w, s, e)
    THEN pc' = "GridBuild" /\ Gin'.area = [N |-> n, W |-> w, S |-> s, E |-> e]
    ELSE pc' = "aborted" /\ err' = "assert check" /\ Gin' = NoGrid

\* strings of four numbers that are out of range
OutOfRangeStrings ==
    { <<"0", "/", "0", "/", "1", "/", "0">>,
      <<"9", "1", "/", "0", "/", "0", "/", "1">>,
      <<"0", "/", "0", "/", "-", "9", "1", "/", "0">>,
      <<"0", "/", "1", "/", "0", "/", "0">>,
      <<"0", "/", "0", "/", "0", "/", "3", "6", "1">> }

StringChecksRange(fs) == ChecksRange(stod(fs[1]), stod(fs[2]), stod(fs[3]), stod(fs[4]))

\* C14: every constructed Area has -90 <= S <= N <= 90 and W <= E <= W + 360,
\* and a construction from four numbers or from a string whose values are
\* out of range fails with the range error and produces no Area
C14_AreaInRangeOrFails ==
    [][/\ pc' = "GridBuild" => AreaInRange(Gin'.area)
       /\ AreaFromBoundsStep
            => ChecksRange(Literal(inputArea[1]), Literal(inputArea[2]),
                           Literal(inputArea[3]), Literal(inputArea[4]))
       /\ (AreaFromStringStep /\ MatchNWSE(inputArea))
            => StringChecksRange(Split(inputArea, "/"))
       /\ (AreaFromStringStep /\ inputArea \in OutOfRangeStrings)
            => pc' = "aborted" /\ err' = "assert check"]_vars

C14_Witness ==
    /\ pc = "aborted" /\ err = "assert check"
    /\ inputArea = <<"0", "/", "0", "/", "0", "/", "3", "6", "1">>
    /\ Gin = NoGrid

\* strings that are not four '/'-separated signed decimal numbers: three and
\* five fields, a letter, a trailing blank, nothing, an empty field, a point
\* without digits, an exponent, two signs
MalformedStrings ==
    { <<"1", "/", "0", "/", "0">>,
      <<"1", "/", "0", "/", "0", "/", "1", "/", "2">>,
      <<"a", "/", "0", "/", "0", "/", "1">>,
      <<"1", "/", "0", "/", "0", "/", "1", " ">>,
      <<>>,
      <<"1", "/", "/", "0", "/", "1">>,
      <<".", "/", "0", "/", "0", "/", "0">>,
      <<"1", "e", "1", "/", "0", "/", "0", "/", "1">>,
      <<"+", "-", "1", "/", "0", "/", "0", "/", "1">> }

\* four signed decimal numbers within range
SignedDecimals == <<"+", "1", ".", "/", "-", "0", "/", "-", "1", ".", "5", "/", "+", "3", "6", "0", ".">>

\* C15: the construction of an Area from a string that is not exactly four
\* '/'-separated signed decimal numbers fails with the format error, and no
\* field is parsed into an Area
C15_MalformedStringFails ==
    [][AreaFromStringStep =>
        /\ inputArea \in MalformedStrings
            => pc' = "aborted" /\ err' = "assert regex_match" /\ Gin' = NoGrid
        /\ inputArea = SignedDecimals => pc' = "GridBuild" /\ err' = "none"]_vars

C15_Witness ==
    /\ pc = "aborted" /\ err = "assert regex_match"
    /\ inputArea = <<"1", "/", "0", "/", "0", "/", "1", "/", "2">>
    /\ Gin = NoGrid

\* C16: for every N >= 1 and every valid area that is not the full global
\* box, the construction of O<N> or F<N> over that area fails with the
\* unsupported-area error and returns no grid
C16_GaussianNeedsGlobe ==
    /\ (GridIsBuilt /\ IsGaussianName(inputGrid)) => IsGlobe(Gin.area)
    /\ (pc = "aborted" /\ IsGaussianName(inputGrid))
        => err \in {"assert regex_match", "assert check", "assert area == GLOBE"}

\* names whose dimension is zero or negative
ZeroOrNegativeNames ==
    { <<"O", "0">>,
      <<"F", "0">>,
      <<"L", "L", "0", "x", "3">>,
      <<"L", "L", "3", "x", "0">>,
      <<"O", "-", "1">> }

\* the assertions of the constructors on their parameters
InvalidParameterErrors == {"assert N > 0", "assert Ni > 0 && Nj > 0"}

\* the assertions of the Area constructors
AreaErrors == {"assert regex_match", "assert check"}

\* Grid::build was called with a name of ZeroOrNegativeNames and has failed
ZeroDimensionFailed ==
    pc = "aborted" /\ inputGrid \in ZeroOrNegativeNames /\ err \notin AreaErrors

\* C17 as stated: a name whose dimension is zero or negative fails with the
\* invalid-parameter error, as distinct from the unrecognized-grid error
C17_ZeroDimensionIsInvalidParameter ==
    ZeroDimensionFailed => err \in InvalidParameterErrors

\* C17: a name whose dimension is zero or negative matches none of the forms:
\* Grid::build fails with the unrecognized-grid error naming it, returns no
\* grid, and never gets as far as the assertions of the constructors
C17_ZeroDimensionIsUnrecognized ==
    /\ err \notin InvalidParameterErrors
    /\ inputGrid \in ZeroOrNegativeNames => ~GridIsBuilt
    /\ ZeroDimensionFailed
        => err = "runtime_error Unrecognized grid '" \o StdString(inputGrid) \o "'"

C17_Witness ==
    /\ ZeroDimensionFailed
    /\ inputGrid = <<"L", "L", "3", "x", "0">>
    /\ err = "runtime_error Unrecognized grid 'LL3x0'"

\* ------------------------------------------------------------------------
\* Claims about the errors of the later steps
\* ------------------------------------------------------------------------

\* the assertion on the number of rows that fails in the builder's call
DegenerateGridError ==
    IF builder = "fill_midpoints" THEN "assert linear_spacing_n" ELSE "assert fill_midpoints_n"

\* the assertions of the builders on the number of points
CountErrors == {"assert fill_midpoints", "assert fill_midpoints_n"}

\* the builder's call for grid g: fewer than 2 rows end the run in the
\* assertion with nothing written, 2 rows or more pass the assertions on the
\* number of rows
ChecksRows(g) ==
    IF Nj(g) < 2
    THEN pc' = "aborted" /\ err' = DegenerateGridError /\ Mj' = Mj /\ it' = it
    ELSE /\ err' \notin CountErrors
         /\ err' = "assert linear_spacing_n" => g.area.N = g.area.S

LaterErrors ==
    {"assert linear_spacing_n", "assert fill_midpoints", "assert fill_midpoints_n",
     "assert it == Mj.end()"}

\* C19: all errors are detected at construction time: once the Areas are
\* constructed and Grid::build has returned the grids, every later step
\* (Xj(), the boundaries, the merge) completes without an error or a failed
\* assertion
C19_NoErrorAfterConstruction == pc = "aborted" => err \notin LaterErrors

\* the grid whose boundaries were being built when the run ended
FailedGrid == IF it = 1 THEN Gin ELSE Gout

\* C20: for an LL grid of at least 2 rows over any valid area, the center
\* latitudes and the boundaries are computed
C20_LLComputesOverAnyArea ==
    (pc = "aborted" /\ err \in LaterErrors) =>
        ~(FailedGrid.kind = "LL" /\ Nj(FailedGrid) >= 2 /\ AreaInRange(FailedGrid.area))

\* ------------------------------------------------------------------------
\* The area of the Gaussian grids
\* ------------------------------------------------------------------------

\* N = 90, W = 0, S = -90 and E = 360, component by component
IsGlobeBox(a) ==
    a.N = FromInt(90) /\ a.W = FromInt(0) /\ a.S = FromInt(-90) /\ a.E = FromInt(360)

\* Grid::build for an O<N> or F<N> name, in a source that compares the area
\* with GLOBE, returns a grid over the box and fails the comparison otherwise
AcceptsBoxOnly ==
    IF IsGlobeBox(Gin.area)
    THEN pc' = "built" /\ Gin'.kind \in {"O", "F"} /\ Gin'.area = Gin.area
    ELSE pc' = "aborted" /\ err' = "assert area == GLOBE" /\ Gin'.kind = "none"

\* C21: an O<N> or F<N> grid is accepted exactly when its area is equal to
\* (N = 90, W = 0, S = -90, E = 360) component by component; an area for which
\* isGlobal() holds but whose West bound is not 0, such as 90/-180/-90/180, is
\* rejected by the same check as the areas that are not global
C21_GaussianAcceptsGlobeBoxOnly ==
    [][(GridBuildStep /\ IsGaussianName(inputGrid) /\ HasGlobeAssert(builder))
        => AcceptsBoxOnly]_vars

\* 90/-180/-90/180 is global and was rejected
C21_Witness ==
    /\ pc = "aborted" /\ err = "assert area == GLOBE"
    /\ builder = "part_002" /\ inputGrid = <<"O", "2">>
    /\ inputArea = <<"9", "0", "/", "-", "1", "8", "0", "/", "-", "9", "0", "/", "1", "8", "0">>
    /\ isGlobal(AreaFromString(inputArea).area)
    /\ ~IsGlobeBox(AreaFromString(inputArea).area)

\* ------------------------------------------------------------------------
\* The two boundary builders side by side
\* ------------------------------------------------------------------------

\* an empty buffer for the Nj + 1 boundaries of grid g
EdgeBuffer(g) == [k \in 1..(Nj(g) + 1) |-> midpoint_t(DZero, 0)]

\* part_002: fill_midpoints(it, g->Xj(), g->area().N(), g->area().S(), label)
EdgesFromXj(g, label, fused) ==
    fill_midpoints(EdgeBuffer(g), 1, Xj(g, fused), g.area.N, g.area.S, label).Mj

\* part_000: fill_midpoints_n(it, g->Nj(), g->firstXj(), g->lastXj(),
\*                            g->area().N(), g->area().S(), label, true)
EdgesFromCount(g, label, fused) ==
    fill_midpoints_n(EdgeBuffer(g), 1, Nj(g), firstXj(g), lastXj(g),
                     g.area.N, g.area.S, label, TRUE, fused).Mj

\* the grid has at least 2 rows and its area has North > South
HasRowsAndHeight(g) == Nj(g) >= 2 /\ FGt(g.area.N, g.area.S)

\* the boundaries of the grid that main has just written
WrittenEdges == SubSeq(Mj, 1, Nj(Gin) + 1)

\* C22: for every grid that Grid::build produces with at least 2 rows over an
\* area with North > South, and every label, fill_midpoints_n from (Nj(),
\* firstXj(), lastXj(), area.N, area.S, label, true) writes the same sequence,
\* point for point and label for label, as fill_midpoints from (Xj(), area.N,
\* area.S, label)
C22_BuildersAgree ==
    (pc = "FillOut" /\ HasRowsAndHeight(Gin)) =>
        /\ WrittenEdges = EdgesFromXj(Gin, 0, fpContract)
            \/ WrittenEdges = EdgesFromCount(Gin, 0, fpContract)
        /\ EdgesFromXj(Gin, 0, fpContract) = EdgesFromCount(Gin, 0, fpContract)

====
